---- MODULE Spec2Model ----
(***************************************************************************)
(* Model of sync_jira_actions/sync_pr.py: the PR-approval verdict          *)
(* (__check_pr_approval_status) and the loop of check_pr_approval_and_move *)
(* that transitions and comments the Jira issues linked to a pull request. *)
(***************************************************************************)
EXTENDS Integers, Sequences, FiniteSets, TLC

(* ------------------------------------------------------------------ *)
(* Bounds of the model                                                  *)
(* ------------------------------------------------------------------ *)
\* longest list of latest reviews returned for a pull request
MaxReviews == 3
\* largest configured INPUT_MINIMUM_APPROVALS explored for the verdict
MaxMinimum == 4
\* longest jira_keys list handed to check_pr_approval_and_move
MaxKeys == 2

(* ------------------------------------------------------------------ *)
(* Values                                                               *)
(* ------------------------------------------------------------------ *)
\* Python's None, True and False as they are returned for `approved`
None == "None"
True == "True"
False == "False"

\* default of INPUT_MINIMUM_APPROVALS
DefaultMinimumApprovals == 3

\* reviewDecision values of the GraphQL answer (null is None)
Outcomes == {"APPROVED", "CHANGES_REQUESTED", "REVIEW_REQUIRED", None}
\* states of the latest reviews; every state but the first two is treated alike
ReviewStates == {"APPROVED", "CHANGES_REQUESTED", "COMMENTED"}

\* the sequences over S of length at most n
SeqsUpTo(S, n) == UNION {[1..len -> S] : len \in 0..n}

ReviewLists == SeqsUpTo(ReviewStates, MaxReviews)

\* the Jira issues of the project that a pull request can be linked to
Keys == {"PROJ-1", "PROJ-2"}
KeyLists == SeqsUpTo(Keys, MaxKeys) \ {<<>>}

SIMPLE_TRANSITIONS ==
    [review_status   |-> "Review in progress",
     approved_status |-> "Reviewer Approved",
     approved        |-> "Reviewer Approved",
     progress        |-> "In Progress",
     review          |-> "Review in progress"]

GITHUB_ISSUE_TRANSITIONS ==
    [review_status   |-> "Review in progress",
     approved_status |-> "Reviewer Approved",
     approved        |-> "Approved",
     progress        |-> "Changes Requested",
     review          |-> "Requires re-review"]

\* mutant: the GitHub Issue row carries the simple shape's `approved` name
TRANSITION_MAP_simple_only ==
    ("GitHub Issue" :> SIMPLE_TRANSITIONS) @@
    ("Task" :> SIMPLE_TRANSITIONS) @@
    ("Sub-task" :> SIMPLE_TRANSITIONS) @@
    ("Story" :> SIMPLE_TRANSITIONS) @@
    ("Bug" :> SIMPLE_TRANSITIONS)

TRANSITION_MAP ==
    ("GitHub Issue" :> GITHUB_ISSUE_TRANSITIONS) @@
    ("Task" :> SIMPLE_TRANSITIONS) @@
    ("Sub-task" :> SIMPLE_TRANSITIONS) @@
    ("Story" :> SIMPLE_TRANSITIONS) @@
    ("Bug" :> SIMPLE_TRANSITIONS)

\* issue types the issues are given: the type with a row of its own, one of the
\* types that share the simple row, and one without a row
IssueTypes == {"GitHub Issue", "Task", "Epic"}
\* workflow statuses the issues start in: one that no row names, the
\* review_status and the approved_status; the transitions lead to the others
Statuses == {"To Do", "Review in progress", "Reviewer Approved"}

MSG_REVIEW ==
    "The PR linked to this issue has new changes or dismissed reviews and moved back to review."
MSG_APPROVED ==
    "The PR linked to this issue has met approval criteria and is ready to merge."
MSG_PROGRESS ==
    "The PR linked to this issue has new changes requested and moved back in progress."

(* ------------------------------------------------------------------ *)
(* __check_pr_approval_status                                           *)
(* ------------------------------------------------------------------ *)
Count(states, state) == Cardinality({p \in DOMAIN states : states[p] = state})

\* mutant: a requested change only counts once GitHub's decision is CHANGES_REQUESTED
check_pr_approval_status_decision_only(outcome_, reviews_, minimum) ==
    LET approved_ == outcome_ = "APPROVED"
        changes_requested == outcome_ = "CHANGES_REQUESTED" /\ Count(reviews_, "CHANGES_REQUESTED") > 0
        num_approved == Count(reviews_, "APPROVED")
    IN  IF ~approved_ /\ changes_requested THEN False
        ELSE IF approved_ /\ num_approved >= minimum THEN True
        ELSE None

\* mutant: strictly more approvals than the minimum are asked for
check_pr_approval_status_strict(outcome_, reviews_, minimum) ==
    LET approved_ == outcome_ = "APPROVED"
        changes_requested == Count(reviews_, "CHANGES_REQUESTED") > 0
        num_approved == Count(reviews_, "APPROVED")
    IN  IF ~approved_ /\ changes_requested THEN False
        ELSE IF approved_ /\ num_approved > minimum THEN True
        ELSE None

\* mutant: a requested change is looked at before GitHub's decision
check_pr_approval_status_changes_first(outcome_, reviews_, minimum) ==
    LET approved_ == outcome_ = "APPROVED"
        changes_requested == Count(reviews_, "CHANGES_REQUESTED") > 0
        num_approved == Count(reviews_, "APPROVED")
    IN  IF changes_requested THEN False
        ELSE IF approved_ /\ num_approved >= minimum THEN True
        ELSE None

\* mutant: a decision other than APPROVED is always judged as changes requested
check_pr_approval_status_no_pending(outcome_, reviews_, minimum) ==
    LET approved_ == outcome_ = "APPROVED"
        num_approved == Count(reviews_, "APPROVED")
    IN  IF ~approved_ THEN False
        ELSE IF approved_ /\ num_approved >= minimum THEN True
        ELSE None

\* the value returned for `approved`: False, True, or None when no branch returns
check_pr_approval_status(outcome_, reviews_, minimum) ==
    LET approved_ == outcome_ = "APPROVED"
        changes_requested == Count(reviews_, "CHANGES_REQUESTED") > 0
        num_approved == Count(reviews_, "APPROVED")
    IN  IF ~approved_ /\ changes_requested THEN False
        ELSE IF approved_ /\ num_approved >= minimum THEN True
        ELSE IF ~approved_ /\ ~changes_requested THEN None
        ELSE None

\* per configured minimum, the values __check_pr_approval_status returns over
\* every review status get_pr_review_status can answer with
Verdicts ==
    [m \in 0..MaxMinimum |->
        {check_pr_approval_status(o, rs, m) : o \in Outcomes, rs \in ReviewLists}]

(* ------------------------------------------------------------------ *)
(* The if/elif chain of check_pr_approval_and_move                      *)
(* ------------------------------------------------------------------ *)
\* mutant: the "review in progress" skip is tested before the regression row
Branch_skip_first(approved_, status, transitions) ==
    IF approved_ = None THEN "skip"
    ELSE IF approved_ = True /\ status = transitions.review_status THEN "approved"
    ELSE IF approved_ # True
            /\ status \in {transitions.review_status, transitions.approved_status}
        THEN "progress"
    ELSE "none"

\* mutant: requested changes only move an issue that is still in review
Branch_review_only(approved_, status, transitions) ==
    IF approved_ = None /\ status = transitions.approved_status THEN "review"
    ELSE IF approved_ = None THEN "skip"
    ELSE IF approved_ = True /\ status = transitions.review_status THEN "approved"
    ELSE IF approved_ # True /\ status = transitions.review_status THEN "progress"
    ELSE "none"

\* mutant: requested changes move the issue whatever its status
Branch_any_status(approved_, status, transitions) ==
    IF approved_ = None /\ status = transitions.approved_status THEN "review"
    ELSE IF approved_ = None THEN "skip"
    ELSE IF approved_ = True /\ status = transitions.review_status THEN "approved"
    ELSE IF approved_ # True THEN "progress"
    ELSE "none"

\* mutant: a pending verdict sends back to review from the review status as well
Branch_regress_in_review(approved_, status, transitions) ==
    IF approved_ = None
       /\ status \in {transitions.review_status, transitions.approved_status} THEN "review"
    ELSE IF approved_ = None THEN "skip"
    ELSE IF approved_ = True /\ status = transitions.review_status THEN "approved"
    ELSE IF approved_ # True
            /\ status \in {transitions.review_status, transitions.approved_status}
        THEN "progress"
    ELSE "none"

\* the branch taken: the logical transition name, "skip" for the pending branch,
\* "none" when no branch is taken
Branch(approved_, status, transitions) ==
    IF approved_ = None /\ status = transitions.approved_status THEN "review"
    ELSE IF approved_ = None THEN "skip"
    ELSE IF approved_ = True /\ status = transitions.review_status THEN "approved"
    ELSE IF approved_ # True
            /\ status \in {transitions.review_status, transitions.approved_status}
        THEN "progress"
    ELSE "none"

\* the comment each branch posts
CommentOf(branch_) ==
    CASE branch_ = "review" -> MSG_REVIEW
      [] branch_ = "approved" -> MSG_APPROVED
      [] branch_ = "progress" -> MSG_PROGRESS

\* mutant: the `progress` transition leaves the issue in the review status
WorkflowTarget_progress_stays(transitions, branch_) ==
    CASE branch_ = "review" -> transitions.review_status
      [] branch_ = "approved" -> transitions.approved_status
      [] branch_ = "progress" -> transitions.review_status

\* mutant: the `review` transition leaves the issue in the approved status
WorkflowTarget_review_stays(transitions, branch_) ==
    CASE branch_ = "review" -> transitions.approved_status
      [] branch_ = "approved" -> transitions.approved_status
      [] branch_ = "progress" -> transitions.progress

\* the status a transition leaves the issue in, as the code's log lines name it:
\* "from Approved to Review", "from Review to Approved", "back to in progress"
WorkflowTarget(transitions, branch_) ==
    CASE branch_ = "review" -> transitions.review_status
      [] branch_ = "approved" -> transitions.approved_status
      [] branch_ = "progress" -> transitions.progress

(* ------------------------------------------------------------------ *)
(* find_and_link_pr_issues: the two regular expressions and the title   *)
(* ------------------------------------------------------------------ *)
\* A title is a sequence of text fragments: the project name, single characters.
\* JIRA_PROJECT of the environment
JIRA_PROJECT == "PROJ"
Digits == {"0", "1", "2", "3", "4", "5", "6", "7", "8", "9"}
\* the result of re.search when nothing matches
NoMatch == <<>>

\* the literal `{project}-` of both patterns starts at position p of title t
TokenAt(t, p) == p + 1 <= Len(t) /\ t[p] = JIRA_PROJECT /\ t[p + 1] = "-"

\* \d* from position p: the position of the last digit taken (p - 1 when none)
RECURSIVE DigitsEnd(_, _)
DigitsEnd(t, p) == IF p <= Len(t) /\ t[p] \in Digits THEN DigitsEnd(t, p + 1) ELSE p - 1

\* mutant: the leading .* gives way from the left, as a lazy .*? would
RECURSIVE SearchFrom_lazy(_, _)
SearchFrom_lazy(t, n) ==
    LET k == Len(t) - n
    IN  IF TokenAt(t, k + 1) THEN SubSeq(t, k + 1, DigitsEnd(t, k + 3))
        ELSE IF n = 0 THEN NoMatch
        ELSE SearchFrom_lazy(t, n - 1)

\* '.*({project}-\d*).*' with the leading .* holding n fragments: group 1 when
\* the rest matches there, else the .* gives one fragment back
RECURSIVE SearchFrom(_, _)
SearchFrom(t, n) ==
    IF TokenAt(t, n + 1) THEN SubSeq(t, n + 1, DigitsEnd(t, n + 3))
    ELSE IF n = 0 THEN NoMatch
    ELSE SearchFrom(t, n - 1)

\* re.search(f'.*({project}-\d*).*', title): match.group(1), or NoMatch
re_search_key(t) == SearchFrom(t, Len(t))

\* the loop over closing_issues: the keys found, in the order of the issues
RECURSIVE ResolveKeys(_)
ResolveKeys(titles) ==
    IF titles = <<>> THEN <<>>
    ELSE LET match == re_search_key(Head(titles))
         IN  (IF match # NoMatch THEN <<match>> ELSE <<>>) \o ResolveKeys(Tail(titles))

\* re.sub(f'{project}-\d*', '', t), scanning from position p
RECURSIVE StripKeysFrom(_, _)
StripKeysFrom(t, p) ==
    IF p > Len(t) THEN <<>>
    ELSE IF TokenAt(t, p) THEN StripKeysFrom(t, DigitsEnd(t, p + 2) + 1)
    ELSE <<t[p]>> \o StripKeysFrom(t, p + 1)

\* \s* from position p: the position after the white space
RECURSIVE SkipSpaces(_, _)
SkipSpaces(t, p) == IF p <= Len(t) /\ t[p] = " " THEN SkipSpaces(t, p + 1) ELSE p

\* re.sub('\(\s*\)', '', t), scanning from position p
RECURSIVE CollapseParensFrom(_, _)
CollapseParensFrom(t, p) ==
    IF p > Len(t) THEN <<>>
    ELSE LET q == SkipSpaces(t, p + 1)
         IN  IF t[p] = "(" /\ q <= Len(t) /\ t[q] = ")"
             THEN CollapseParensFrom(t, q + 1)
             ELSE <<t[p]>> \o CollapseParensFrom(t, p + 1)

\* str.strip()
RECURSIVE Strip(_)
Strip(t) ==
    IF t = <<>> THEN t
    ELSE IF Head(t) = " " THEN Strip(Tail(t))
    ELSE IF t[Len(t)] = " " THEN Strip(SubSeq(t, 1, Len(t) - 1))
    ELSE t

\* " ".join(jira_keys)
RECURSIVE JoinKeys(_)
JoinKeys(keys) ==
    IF keys = <<>> THEN <<>>
    ELSE IF Len(keys) = 1 THEN Head(keys)
    ELSE Head(keys) \o <<" ">> \o JoinKeys(Tail(keys))

\* the title without keys and without the parentheses they leave empty
CleanTitle(t) == Strip(CollapseParensFrom(StripKeysFrom(t, 1), 1))

\* mutant: the keys are appended without removing those already in the title
new_pr_title_keep_old(title_, keys) ==
    Strip(title_) \o <<" ", "(">> \o JoinKeys(keys) \o <<")">>

\* the title handed to edit(): f'{new_pr_title} ({" ".join(jira_keys)})'
new_pr_title(title_, keys) ==
    CleanTitle(title_) \o <<" ", "(">> \o JoinKeys(keys) \o <<")">>

\* the text of a sequence of fragments
RECURSIVE Text(_)
Text(t) == IF t = <<>> THEN "" ELSE Head(t) \o Text(Tail(t))

\* titles of closing issues and of pull requests the link model draws from
MaxIssueTitleLen == 6
MaxPairTitleLen == 3
MaxPrTitleLen == 4
IssueAlphabet == {JIRA_PROJECT, "-", "1", "2"}
PairAlphabet == {JIRA_PROJECT, "-", "1"}
PrAlphabet == {JIRA_PROJECT, "-", "1", "(", ")", " "}
IssueTitles == SeqsUpTo(IssueAlphabet, MaxIssueTitleLen)
PairTitles == SeqsUpTo(PairAlphabet, MaxPairTitleLen)
PrTitles == SeqsUpTo(PrAlphabet, MaxPrTitleLen)
\* the pull request closes no issue, one issue, or two
ClosingLists ==
    {<<>>} \cup {<<t>> : t \in IssueTitles} \cup {<<a, b>> : a, b \in PairTitles}
\* a pull request titled "1 (PROJ-2)"
SamplePrTitle == <<"1", " ", "(", JIRA_PROJECT, "-", "2", ")">>
\* closing issues titled by their key alone: PROJ-1, PROJ-2, PROJ-
TitleK1 == <<JIRA_PROJECT, "-", "1">>
TitleK2 == <<JIRA_PROJECT, "-", "2">>
TitleK0 == <<JIRA_PROJECT, "-">>
SampleClosingLists == {<<TitleK1>>, <<TitleK1, TitleK2>>, <<TitleK1, TitleK1>>, <<TitleK0>>}
\* closing issues of a pull request whose titles name issues of the Jira project
LinkedClosingLists == SeqsUpTo({TitleK1, TitleK2}, MaxKeys)

(* ------------------------------------------------------------------ *)
(* State                                                                *)
(* ------------------------------------------------------------------ *)
VARIABLES
    MINIMUM_APPROVALS,  \* module constant read from the environment at import
    jira,               \* the Jira server: key -> [status, issuetype]
    moved,              \* per key, the verdict under which its status was last set ("-": not by a transition)
    pc,                 \* position in check_pr_approval_and_move
    jira_keys,          \* the argument jira_keys
    approved,           \* the local `approved`
    i,                  \* position of the for loop in jira_keys
    issue_status,       \* the local issue_status
    issue_type,         \* the local issue_type
    branch,             \* branch of the if/elif chain taken for the current key
    error,              \* exception that ended the invocation
    calls,              \* the external calls of the current invocation, in order
    prs,                \* the open pull requests sync_remain_prs has still to visit
    outcome,            \* status.outcome of the review status being judged
    reviews,            \* status.reviews of the review status being judged
    result,             \* value returned by __check_pr_approval_status
    closing_issues,     \* titles of the closing issues of the pull request, in order
    pr_title,           \* gh_issue['title']
    link_keys,          \* the list jira_keys of find_and_link_pr_issues
    edited_title,       \* title handed to edit(), "unset" before
    lpc,                \* position in find_and_link_pr_issues
    again,              \* the event follows an edit of the title by an earlier event
    other,              \* a second run of check_pr_approval_and_move, for one key
    overlapped,         \* the second run was under way during the current event
    owed                \* per key: the verdict whose comment failed and is still missing, or "-"

runvars == <<pc, jira_keys, approved, i, issue_status, issue_type, branch, error, calls, prs>>
verdictvars == <<outcome, reviews, result>>
linkvars == <<closing_issues, pr_title, link_keys, edited_title, lpc, again>>
racevars == <<other, overlapped>>
vars == <<MINIMUM_APPROVALS, jira, moved, runvars, verdictvars, linkvars, racevars, owed>>

\* records of the call log
IssueCall(e, key, status, type, after) ==
    [op |-> "issue", entry |-> e, key |-> key, status |-> status, issuetype |-> type,
     transition |-> "", body |-> "", after |-> after, ok |-> TRUE]
TransitionCall(e, key, name, ok) ==
    [op |-> "transition_issue", entry |-> e, key |-> key, status |-> "", issuetype |-> "",
     transition |-> name, body |-> "", after |-> "-", ok |-> ok]
CommentCall(e, key, text, ok) ==
    [op |-> "add_comment", entry |-> e, key |-> key, status |-> "", issuetype |-> "",
     transition |-> "", body |-> text, after |-> "-", ok |-> ok]
ReviewStatusCall ==
    [op |-> "get_pr_review_status", entry |-> 0, key |-> "", status |-> "", issuetype |-> "",
     transition |-> "", body |-> "", after |-> "-", ok |-> TRUE]

FailedReviewStatusCall ==
    [op |-> "get_pr_review_status", entry |-> 0, key |-> "", status |-> "", issuetype |-> "",
     transition |-> "", body |-> "", after |-> "-", ok |-> FALSE]
\* calls made by main and by find_and_link_pr_issues
MainCall(name, key, text, ok) ==
    [op |-> name, entry |-> 0, key |-> key, status |-> "", issuetype |-> "",
     transition |-> "", body |-> text, after |-> "-", ok |-> ok]

IdleRun ==
    /\ pc = "idle"
    /\ jira_keys = <<>>
    /\ approved = None
    /\ i = 1
    /\ issue_status = ""
    /\ issue_type = ""
    /\ branch = "none"
    /\ error = "none"
    /\ calls = <<>>
    /\ prs = <<>>

NoVerdict ==
    /\ outcome = None
    /\ reviews = <<>>
    /\ result = "unset"

IdleOther ==
    [pc |-> "idle", key |-> "", approved |-> None, status |-> "", issuetype |-> "", branch |-> "none"]

NoRace ==
    /\ other = IdleOther
    /\ overlapped = FALSE

NothingOwed == owed = [k \in Keys |-> "-"]

NoLink ==
    /\ closing_issues = <<>>
    /\ pr_title = <<>>
    /\ link_keys = <<>>
    /\ edited_title = <<"unset">>
    /\ lpc = "idle"
    /\ again = FALSE

Init ==
    /\ MINIMUM_APPROVALS = DefaultMinimumApprovals
    /\ jira \in [Keys -> [status : Statuses, issuetype : IssueTypes]]
    /\ moved = [k \in Keys |-> "-"]
    /\ IdleRun
    /\ NoVerdict
    /\ NoLink
    /\ NoRace
    /\ NothingOwed

(* ------------------------------------------------------------------ *)
(* main on a pull-request event, and check_pr_approval_and_move         *)
(* ------------------------------------------------------------------ *)
\* the open pull requests a cron run finds, each named by what the calls
\* about it will answer: its author is a collaborator, it has its Jira issue
\* already, or it has none
OpenPrLists == {<<>>, <<"collaborator", "new">>, <<"synced">>}

\* the keys of link_keys as strings
KeyTexts(keys) == [j \in DOMAIN keys |-> Text(keys[j])]

\* main has returned or has not been started
MainIdle == pc \in {"idle", "end", "failed"} \/ (pc = "done" /\ link_keys # <<>>)

\* main, line 45: a run starts with fresh locals; a second run under way
\* makes the two overlap
MainStarts ==
    /\ jira_keys' = <<>>
    /\ approved' = None
    /\ i' = 1
    /\ issue_status' = ""
    /\ issue_type' = ""
    /\ branch' = "none"
    /\ closing_issues' = <<>>
    /\ link_keys' = <<>>
    /\ edited_title' = <<"unset">>
    /\ lpc' = "idle"
    /\ again' = FALSE
    /\ overlapped' = (other.pc # "idle")
    /\ UNCHANGED <<MINIMUM_APPROVALS, jira, moved, verdictvars, other, owed>>

\* main, lines 46-53: outside a GitHub action, or without JIRA_URL, there is
\* nothing to do
NotConfigured ==
    /\ MainIdle
    /\ MainStarts
    /\ calls' = <<>>
    /\ prs' = <<>>
    /\ pr_title' = <<>>
    /\ error' = "none"
    /\ pc' = "end"

\* main, lines 69-72, and sync_remain_prs, line 57: a cron run asks for the
\* open pull requests
CronJob ==
    /\ MainIdle
    /\ MainStarts
    /\ prs' \in OpenPrLists
    /\ calls' = <<MainCall("get_pulls", "", "", TRUE)>>
    /\ pr_title' = <<>>
    /\ error' = "none"
    /\ pc' = IF prs' = <<>> THEN "end" ELSE "remain"

\* position of sync_remain_prs after the current pull request is dealt with
RemainNext == IF Len(prs) > 1 THEN "remain" ELSE "end"

\* sync_remain_prs, line 59: the author of the next open pull request is
\* looked up; the pull request of a collaborator is passed over
RemainCollaborator ==
    /\ pc = "remain"
    /\ calls' = Append(calls, MainCall("has_in_collaborators", "", "", TRUE))
    /\ IF Head(prs) = "collaborator"
         THEN prs' = Tail(prs) /\ pc' = RemainNext
         ELSE prs' = prs /\ pc' = "remain_find"
    /\ UNCHANGED <<MINIMUM_APPROVALS, jira, moved, jira_keys, approved, i, issue_status,
                   issue_type, branch, error, verdictvars, linkvars, racevars, owed>>

\* sync_remain_prs, lines 71-72: the Jira issue of the pull request is
\* searched
RemainFind ==
    /\ pc = "remain_find"
    /\ calls' = Append(calls, MainCall("_find_jira_issue", "", "", TRUE))
    /\ IF Head(prs) = "synced"
         THEN prs' = Tail(prs) /\ pc' = RemainNext
         ELSE prs' = prs /\ pc' = "remain_create"
    /\ UNCHANGED <<MINIMUM_APPROVALS, jira, moved, jira_keys, approved, i, issue_status,
                   issue_type, branch, error, verdictvars, linkvars, racevars, owed>>

\* sync_remain_prs, line 73: the pull request without Jira issue gets one
RemainCreate ==
    /\ pc = "remain_create"
    /\ calls' = Append(calls, MainCall("_create_jira_issue", "", "", TRUE))
    /\ prs' = Tail(prs)
    /\ pc' = RemainNext
    /\ UNCHANGED <<MINIMUM_APPROVALS, jira, moved, jira_keys, approved, i, issue_status,
                   issue_type, branch, error, verdictvars, linkvars, racevars, owed>>

\* the call sync_remain_prs is about to make
RemainOp ==
    CASE pc = "remain" -> "has_in_collaborators"
      [] pc = "remain_find" -> "_find_jira_issue"
      [] pc = "remain_create" -> "_create_jira_issue"

\* a call of sync_remain_prs raises: the exception leaves the loop and main
RemainFails ==
    /\ pc \in {"remain", "remain_find", "remain_create"}
    /\ calls' = Append(calls, MainCall(RemainOp, "", "", FALSE))
    /\ prs' = <<>>
    /\ pc' = "failed"
    /\ error' = "Exception"
    /\ UNCHANGED <<MINIMUM_APPROVALS, jira, moved, jira_keys, approved, i, issue_status,
                   issue_type, branch, verdictvars, linkvars, racevars, owed>>

\* main, lines 84-102: a workflow_dispatch event either lacks its inputs or
\* starts sync_issues_manually
ManualDispatch ==
    /\ MainIdle
    /\ MainStarts
    /\ calls' \in {<<>>, <<MainCall("sync_issues_manually", "", "", TRUE)>>}
    /\ prs' = <<>>
    /\ pr_title' = <<>>
    /\ error' = "none"
    /\ pc' = "end"

\* main, lines 105 and 143: an event without 'action', or one that is left
\* without 'issue' (a workflow_run of another event than
\* pull_request_review, any event that is neither of an issue nor of a pull
\* request), ends main with a KeyError before any call
EventKeyError ==
    /\ MainIdle
    /\ MainStarts
    /\ calls' = <<>>
    /\ prs' = <<>>
    /\ pr_title' = <<>>
    /\ error' = "KeyError"
    /\ pc' = "failed"

\* main, lines 74-150: an event arrives. The payload of a pull_request or
\* issues event holds the issue: a pull request with or without
\* INPUT_LINK_CLOSING_ISSUES, or an issue. On pull_request_target the issue
\* has to be fetched, on a workflow_run of pull_request_review the pull
\* request has to be found first
Event ==
    /\ MainIdle
    /\ MainStarts
    /\ calls' = <<>>
    /\ prs' = <<>>
    /\ error' = "none"
    /\ \/ pc' \in {"link", "collab", "issue"} /\ pr_title' = SamplePrTitle
       \/ pc' \in {"get_issue", "recent_pr"} /\ pr_title' = <<>>

\* main, line 136: get_recently_updated_pr_url names the pull request the
\* review was given to
RecentPrUrl ==
    /\ pc = "recent_pr"
    /\ calls' = Append(calls, MainCall("get_recently_updated_pr_url", "", "", TRUE))
    /\ pc' = "get_issue"
    /\ UNCHANGED <<MINIMUM_APPROVALS, prs, jira, moved, jira_keys, approved, i, issue_status,
                   issue_type, branch, error, verdictvars, linkvars, racevars, owed>>

\* github_graphql.py, lines 27-30 and 116: the query is answered with a
\* status other than 200, or names no pull request
RecentPrUrlFails ==
    /\ pc = "recent_pr"
    /\ calls' = Append(calls, MainCall("get_recently_updated_pr_url", "", "", FALSE))
    /\ error' \in {"Exception", "IndexError"}
    /\ pc' = "failed"
    /\ UNCHANGED <<MINIMUM_APPROVALS, prs, jira, moved, jira_keys, approved, i, issue_status,
                   issue_type, branch, verdictvars, linkvars, racevars, owed>>

\* main, lines 125-127 and 138-148: the issue of the pull request is
\* fetched; title, labels and is_pr are taken from the answer
GetIssue ==
    /\ pc = "get_issue"
    /\ calls' = Append(calls, MainCall("requests.get", "", "", TRUE))
    /\ pr_title' = SamplePrTitle
    /\ pc' \in {"link", "collab", "issue"}
    /\ UNCHANGED <<MINIMUM_APPROVALS, prs, jira, moved, jira_keys, approved, i, issue_status,
                   issue_type, branch, error, verdictvars, closing_issues, link_keys,
                   edited_title, lpc, again, racevars, owed>>

\* requests.get raises, or its answer is no issue (no 'labels', line 144)
GetIssueFails ==
    /\ pc = "get_issue"
    /\ \E ok \in BOOLEAN :
          /\ calls' = Append(calls, MainCall("requests.get", "", "", ok))
          /\ error' = IF ok THEN "KeyError" ELSE "ConnectionError"
    /\ pc' = "failed"
    /\ UNCHANGED <<MINIMUM_APPROVALS, prs, jira, moved, jira_keys, approved, i, issue_status,
                   issue_type, branch, verdictvars, linkvars, racevars, owed>>

\* mutant: the title is edited whether or not a key was found
LinkPrIssues_always_edit ==
    /\ pc = "link"
    /\ closing_issues' \in LinkedClosingLists
    /\ link_keys' = ResolveKeys(closing_issues')
    /\ jira_keys' = KeyTexts(link_keys')
    /\ calls' = Append(calls, MainCall("find_closing_issues", "", "", TRUE))
    /\ pc' = "edit"
    /\ lpc' = "matched"
    /\ UNCHANGED <<MINIMUM_APPROVALS, prs, jira, moved, approved, i, issue_status,
                   issue_type, branch, error, verdictvars, pr_title, edited_title,
                   again, racevars, owed>>

\* main, line 151, find_and_link_pr_issues up to line 95: the closing issues
\* are fetched and the keys are found in their titles
LinkPrIssues ==
    /\ pc = "link"
    /\ closing_issues' \in LinkedClosingLists
    /\ link_keys' = ResolveKeys(closing_issues')
    /\ jira_keys' = KeyTexts(link_keys')
    /\ calls' = Append(calls, MainCall("find_closing_issues", "", "", TRUE))
    /\ pc' = IF Len(link_keys') > 0 THEN "edit" ELSE "collab"
    /\ lpc' = IF Len(link_keys') > 0 THEN "matched" ELSE "done"
    /\ UNCHANGED <<MINIMUM_APPROVALS, prs, jira, moved, approved, i, issue_status,
                   issue_type, branch, error, verdictvars, pr_title, edited_title,
                   again, racevars, owed>>

\* find_and_link_pr_issues, lines 96-102: the title is edited and the keys
\* are returned to main
EditTitle ==
    /\ pc = "edit"
    /\ edited_title' = new_pr_title(pr_title, link_keys)
    /\ calls' = Append(calls, MainCall("edit", "", Text(edited_title'), TRUE))
    /\ pc' = "linked"
    /\ lpc' = "done"
    /\ UNCHANGED <<MINIMUM_APPROVALS, prs, jira, moved, jira_keys, approved, i, issue_status,
                   issue_type, branch, error, verdictvars, closing_issues, pr_title,
                   link_keys, again, racevars, owed>>

\* edit() is refused by GitHub: the exception leaves find_and_link_pr_issues
\* and main
EditFails ==
    /\ pc = "edit"
    /\ calls' = Append(calls, MainCall("edit", "", Text(new_pr_title(pr_title, link_keys)), FALSE))
    /\ pc' = "failed"
    /\ error' = "GithubException"
    /\ UNCHANGED <<MINIMUM_APPROVALS, prs, jira, moved, jira_keys, approved, i, issue_status,
                   issue_type, branch, verdictvars, linkvars, racevars, owed>>

\* the GraphQL query for the closing issues is answered with an error status
LinkFails ==
    /\ pc = "link"
    /\ calls' = Append(calls, MainCall("find_closing_issues", "", "", FALSE))
    /\ pc' = "failed"
    /\ error' = "Exception"
    /\ UNCHANGED <<MINIMUM_APPROVALS, prs, jira, moved, jira_keys, approved, i, issue_status,
                   issue_type, branch, verdictvars, linkvars, racevars, owed>>

\* main, lines 157-159: a pull request of a collaborator without the sync
\* label is skipped
CollaboratorCheck ==
    /\ pc = "collab"
    /\ calls' = Append(calls, MainCall("has_in_collaborators", "", "", TRUE))
    /\ pc' \in {"end", "label"}
    /\ UNCHANGED <<MINIMUM_APPROVALS, prs, jira, moved, jira_keys, approved, i, issue_status,
                   issue_type, branch, error, verdictvars, linkvars, racevars, owed>>

\* main, lines 162-164: with a sync label configured, an issue without it is skipped
LabelCheck ==
    /\ pc \in {"label", "issue"}
    /\ calls' = Append(calls, MainCall("sync_label", "", "", TRUE))
    /\ pc' \in {"end", IF pc = "label" THEN "find" ELSE "handler"}
    /\ UNCHANGED <<MINIMUM_APPROVALS, prs, jira, moved, jira_keys, approved, i, issue_status,
                   issue_type, branch, error, verdictvars, linkvars, racevars, owed>>

\* main, lines 168-170: the Jira issue of the pull request itself is looked up
FindJiraIssue ==
    /\ pc = "find"
    /\ \/ \E key \in Keys :
             /\ calls' = Append(calls, MainCall("find_jira_issue", key, "", TRUE))
             /\ jira_keys' = <<key>>
             /\ pc' = "found"
       \/ /\ calls' = Append(calls, MainCall("find_jira_issue", "", "", TRUE))
          /\ jira_keys' = <<>>
          /\ pc' = "handler"
    /\ UNCHANGED <<MINIMUM_APPROVALS, prs, jira, moved, approved, i, issue_status,
                   issue_type, branch, error, verdictvars, linkvars, racevars, owed>>

\* mutant: the handler of the event runs after the linked issues were moved, too
Handler_after_linked ==
    /\ pc \in {"handler", "done"}
    /\ calls' = Append(calls, MainCall("handler", "", "", TRUE))
    /\ pc' = "end"
    /\ UNCHANGED <<MINIMUM_APPROVALS, prs, jira, moved, jira_keys, approved, i, issue_status,
                   issue_type, branch, error, verdictvars, linkvars, racevars, owed>>

\* main, lines 190-193: the event or its action has no handler; nothing is called
NoHandler ==
    /\ pc = "handler" \/ (pc = "done" /\ link_keys = <<>>)
    /\ pc' = "end"
    /\ UNCHANGED <<MINIMUM_APPROVALS, prs, jira, moved, jira_keys, approved, i, issue_status,
                   issue_type, branch, error, calls, verdictvars, linkvars, racevars, owed>>

\* main, lines 173-195: the handler of the event and its action is called
Handler ==
    /\ pc = "handler" \/ (pc = "done" /\ link_keys = <<>>)
    /\ calls' = Append(calls, MainCall("handler", "", "", TRUE))
    /\ pc' = "end"
    /\ UNCHANGED <<MINIMUM_APPROVALS, prs, jira, moved, jira_keys, approved, i, issue_status,
                   issue_type, branch, error, verdictvars, linkvars, racevars, owed>>

\* entry of the function, called by main at line 153 or 171: the review
\* status is fetched and judged once
Invoke ==
    /\ pc \in {"linked", "found"}
    /\ approved' \in Verdicts[MINIMUM_APPROVALS]
    /\ pc' = "loop"
    /\ i' = 1
    /\ issue_status' = ""
    /\ issue_type' = ""
    /\ branch' = "none"
    /\ error' = "none"
    /\ calls' = Append(calls, ReviewStatusCall)
    /\ UNCHANGED <<MINIMUM_APPROVALS, prs, jira, moved, jira_keys, verdictvars, linkvars, racevars, owed>>

\* the GraphQL query for the review status is answered with an error status
InvokeFails ==
    /\ pc \in {"linked", "found"}
    /\ calls' = Append(calls, FailedReviewStatusCall)
    /\ pc' = "failed"
    /\ error' = "Exception"
    /\ UNCHANGED <<MINIMUM_APPROVALS, prs, jira, moved, jira_keys, approved, i, issue_status,
                   issue_type, branch, verdictvars, linkvars, racevars, owed>>

\* mutant: the status read for the first key is used for the keys after it
ReadIssue_stale ==
    /\ pc = "loop"
    /\ i <= Len(jira_keys)
    /\ LET key == jira_keys[i]
           st == IF issue_status # "" THEN issue_status ELSE jira[key].status
           ty == jira[key].issuetype
       IN  /\ calls' = Append(calls, IssueCall(i, key, st, ty, moved[key]))
           /\ issue_status' = st
           /\ issue_type' = ty
           /\ IF ty \notin DOMAIN TRANSITION_MAP
              THEN /\ pc' = "failed"
                   /\ error' = "KeyError"
                   /\ branch' = "none"
                   /\ i' = i
              ELSE LET b == Branch(approved, st, TRANSITION_MAP[ty])
                   IN  /\ branch' = b
                       /\ error' = error
                       /\ IF b \in {"review", "approved", "progress"}
                          THEN pc' = "transition" /\ i' = i
                          ELSE pc' = "loop" /\ i' = i + 1
    /\ UNCHANGED <<MINIMUM_APPROVALS, prs, jira, moved, jira_keys, approved, verdictvars, linkvars, racevars, owed>>

\* mutant: the review status is fetched and judged again for every key
ReadIssue_refetch ==
    /\ pc = "loop"
    /\ i <= Len(jira_keys)
    /\ approved' \in Verdicts[MINIMUM_APPROVALS]
    /\ LET key == jira_keys[i]
           st == jira[key].status
           ty == jira[key].issuetype
       IN  /\ calls' = calls \o <<ReviewStatusCall, IssueCall(i, key, st, ty, moved[key])>>
           /\ issue_status' = st
           /\ issue_type' = ty
           /\ IF ty \notin DOMAIN TRANSITION_MAP
              THEN /\ pc' = "failed"
                   /\ error' = "KeyError"
                   /\ branch' = "none"
                   /\ i' = i
              ELSE LET b == Branch(approved', st, TRANSITION_MAP[ty])
                   IN  /\ branch' = b
                       /\ error' = error
                       /\ IF b \in {"review", "approved", "progress"}
                          THEN pc' = "transition" /\ i' = i
                          ELSE pc' = "loop" /\ i' = i + 1
    /\ UNCHANGED <<MINIMUM_APPROVALS, prs, jira, moved, jira_keys, verdictvars, linkvars, racevars, owed>>

\* one key of the loop: read the issue, look its row up, choose the branch
ReadIssue ==
    /\ pc = "loop"
    /\ i <= Len(jira_keys)
    /\ LET key == jira_keys[i]
           st == jira[key].status
           ty == jira[key].issuetype
       IN  /\ calls' = Append(calls, IssueCall(i, key, st, ty, moved[key]))
           /\ issue_status' = st
           /\ issue_type' = ty
           /\ IF ty \notin DOMAIN TRANSITION_MAP
              THEN /\ pc' = "failed"
                   /\ error' = "KeyError"
                   /\ branch' = "none"
                   /\ i' = i
              ELSE LET b == Branch(approved, st, TRANSITION_MAP[ty])
                   IN  /\ branch' = b
                       /\ error' = error
                       /\ IF b \in {"review", "approved", "progress"}
                          THEN pc' = "transition" /\ i' = i
                          ELSE pc' = "loop" /\ i' = i + 1
    /\ UNCHANGED <<MINIMUM_APPROVALS, prs, jira, moved, jira_keys, approved, verdictvars, linkvars, racevars, owed>>

\* mutant: a transition that succeeded is issued a second time before the comment
TransitionIssue_again ==
    /\ pc = "transition"
    /\ LET key == jira_keys[i]
           transitions == TRANSITION_MAP[issue_type]
       IN  /\ jira' = [jira EXCEPT ![key].status = WorkflowTarget(transitions, branch)]
           /\ moved' = [moved EXCEPT ![key] = approved]
           /\ calls' = Append(calls, TransitionCall(i, key, transitions[branch], TRUE))
    /\ pc' = IF calls[Len(calls)].op = "transition_issue" THEN "comment" ELSE "transition"
    /\ UNCHANGED <<MINIMUM_APPROVALS, prs, jira_keys, approved, i, issue_status,
                   issue_type, branch, error, verdictvars, linkvars, racevars, owed>>

\* jira.transition_issue succeeds
TransitionIssue ==
    /\ pc = "transition"
    /\ LET key == jira_keys[i]
           transitions == TRANSITION_MAP[issue_type]
       IN  /\ jira' = [jira EXCEPT ![key].status = WorkflowTarget(transitions, branch)]
           /\ moved' = [moved EXCEPT ![key] = approved]
           /\ calls' = Append(calls, TransitionCall(i, key, transitions[branch], TRUE))
    /\ pc' = "comment"
    /\ UNCHANGED <<MINIMUM_APPROVALS, prs, jira_keys, approved, i, issue_status,
                   issue_type, branch, error, verdictvars, linkvars, racevars, owed>>

\* mutant: the rejection is caught and the comment is posted all the same
TransitionFails_swallowed ==
    /\ pc = "transition"
    /\ calls' = Append(calls, TransitionCall(i, jira_keys[i], TRANSITION_MAP[issue_type][branch], FALSE))
    /\ pc' = "comment"
    /\ UNCHANGED <<MINIMUM_APPROVALS, prs, jira, moved, jira_keys, approved, i,
                   issue_status, issue_type, branch, error, verdictvars, linkvars, racevars, owed>>

\* jira.transition_issue is rejected or fails: the exception leaves the function
TransitionFails ==
    /\ pc = "transition"
    /\ calls' = Append(calls, TransitionCall(i, jira_keys[i], TRANSITION_MAP[issue_type][branch], FALSE))
    /\ pc' = "failed"
    /\ error' = "JIRAError"
    /\ UNCHANGED <<MINIMUM_APPROVALS, prs, jira, moved, jira_keys, approved, i,
                   issue_status, issue_type, branch, verdictvars, linkvars, racevars, owed>>

\* jira.add_comment succeeds; the loop moves to the next key
AddComment ==
    /\ pc = "comment"
    /\ calls' = Append(calls, CommentCall(i, jira_keys[i], CommentOf(branch), TRUE))
    /\ i' = i + 1
    /\ pc' = "loop"
    /\ UNCHANGED <<MINIMUM_APPROVALS, prs, jira, moved, jira_keys, approved,
                   issue_status, issue_type, branch, error, verdictvars, linkvars, racevars, owed>>

\* jira.add_comment fails: the exception leaves the function
CommentFails ==
    /\ pc = "comment"
    /\ calls' = Append(calls, CommentCall(i, jira_keys[i], CommentOf(branch), FALSE))
    /\ pc' = "failed"
    /\ error' = "JIRAError"
    /\ UNCHANGED <<MINIMUM_APPROVALS, prs, jira, moved, jira_keys, approved, i,
                   issue_status, issue_type, branch, verdictvars, linkvars, racevars, owed>>

\* the loop is exhausted and the function returns
Return ==
    /\ pc = "loop"
    /\ i > Len(jira_keys)
    /\ pc' = "done"
    /\ UNCHANGED <<MINIMUM_APPROVALS, prs, jira, moved, jira_keys, approved, i,
                   issue_status, issue_type, branch, error, calls, verdictvars, linkvars, racevars, owed>>

Next ==
    \/ NotConfigured
    \/ CronJob
    \/ RemainCollaborator
    \/ RemainFind
    \/ RemainCreate
    \/ RemainFails
    \/ ManualDispatch
    \/ EventKeyError
    \/ Event
    \/ RecentPrUrl
    \/ RecentPrUrlFails
    \/ GetIssue
    \/ GetIssueFails
    \/ LinkPrIssues
    \/ LinkFails
    \/ EditTitle
    \/ EditFails
    \/ CollaboratorCheck
    \/ LabelCheck
    \/ FindJiraIssue
    \/ Handler
    \/ NoHandler
    \/ Invoke
    \/ InvokeFails
    \/ ReadIssue
    \/ TransitionIssue
    \/ TransitionFails
    \/ AddComment
    \/ CommentFails
    \/ Return

Spec == Init /\ [][Next]_vars

(* ------------------------------------------------------------------ *)
(* The verdict alone, over every review status and configured minimum   *)
(* ------------------------------------------------------------------ *)
InitVerdict ==
    /\ MINIMUM_APPROVALS \in 0..MaxMinimum
    /\ jira = [k \in Keys |-> [status |-> "To Do", issuetype |-> "Task"]]
    /\ moved = [k \in Keys |-> "-"]
    /\ IdleRun
    /\ outcome \in Outcomes
    /\ reviews \in ReviewLists
    /\ result = "unset"
    /\ NoLink
    /\ NoRace
    /\ NothingOwed

\* get_pr_review_status: a fresh review status is fetched
GetReviewStatus ==
    /\ result # "unset"
    /\ outcome' \in Outcomes
    /\ reviews' \in ReviewLists
    /\ result' = "unset"
    /\ UNCHANGED <<MINIMUM_APPROVALS, jira, moved, runvars, linkvars, racevars, owed>>

\* the body of __check_pr_approval_status on the fetched status
CheckApprovalStatus ==
    /\ result = "unset"
    /\ result' = check_pr_approval_status(outcome, reviews, MINIMUM_APPROVALS)
    /\ UNCHANGED <<MINIMUM_APPROVALS, jira, moved, runvars, outcome, reviews, linkvars, racevars, owed>>

NextVerdict ==
    \/ GetReviewStatus
    \/ CheckApprovalStatus

SpecVerdict == InitVerdict /\ [][NextVerdict]_vars

(* ------------------------------------------------------------------ *)
(* find_and_link_pr_issues alone, over titles of closing issues and of  *)
(* pull requests                                                         *)
(* ------------------------------------------------------------------ *)
InitLink ==
    /\ MINIMUM_APPROVALS = DefaultMinimumApprovals
    /\ jira = [k \in Keys |-> [status |-> "To Do", issuetype |-> "Task"]]
    /\ moved = [k \in Keys |-> "-"]
    /\ IdleRun
    /\ NoVerdict
    /\ \/ closing_issues \in ClosingLists /\ pr_title = SamplePrTitle
       \/ closing_issues \in SampleClosingLists /\ pr_title \in PrTitles
    /\ link_keys = <<>>
    /\ edited_title = <<"unset">>
    /\ lpc = "start"
    /\ again = FALSE
    /\ NoRace
    /\ NothingOwed

\* the whole function: the keys of the closing issues, and the edit of the
\* title when there is a key
FindAndLink ==
    /\ lpc = "start"
    /\ link_keys' = ResolveKeys(closing_issues)
    /\ edited_title' = IF Len(ResolveKeys(closing_issues)) > 0
                       THEN new_pr_title(pr_title, ResolveKeys(closing_issues))
                       ELSE <<"unset">>
    /\ lpc' = "done"
    /\ UNCHANGED <<MINIMUM_APPROVALS, jira, moved, runvars, verdictvars,
                   closing_issues, pr_title, again, racevars, owed>>

\* a later event of the same pull request: its title is the edited one
NextEvent ==
    /\ lpc = "done"
    /\ ~again
    /\ edited_title # <<"unset">>
    /\ pr_title' = edited_title
    /\ link_keys' = <<>>
    /\ edited_title' = <<"unset">>
    /\ lpc' = "start"
    /\ again' = TRUE
    /\ UNCHANGED <<MINIMUM_APPROVALS, jira, moved, runvars, verdictvars, closing_issues, racevars, owed>>

NextLink ==
    \/ FindAndLink
    \/ NextEvent

SpecLink == InitLink /\ [][NextLink]_vars

(* ------------------------------------------------------------------ *)
(* Two runs for the same pull request at once                           *)
(* ------------------------------------------------------------------ *)
\* statuses and types the issues start in when two runs are followed
RaceStatuses == {"Review in progress", "Reviewer Approved"}
RaceTypes == {"Task"}

InitRace ==
    /\ MINIMUM_APPROVALS = DefaultMinimumApprovals
    /\ jira \in [Keys -> [status : RaceStatuses, issuetype : RaceTypes]]
    /\ moved = [k \in Keys |-> "-"]
    /\ IdleRun
    /\ NoVerdict
    /\ NoLink
    /\ NoRace
    /\ NothingOwed

\* the current event has begun and main has not returned
MainActive == pc \notin {"idle", "end", "failed"} /\ ~(pc = "done" /\ link_keys # <<>>)

\* the issue the second run is about
OtherKeys == {"PROJ-1"}

\* a second workflow run enters check_pr_approval_and_move with one key
OtherInvoke ==
    /\ other.pc = "idle"
    /\ \E key \in OtherKeys : \E verdict \in Verdicts[MINIMUM_APPROVALS] :
          other' = [IdleOther EXCEPT !.pc = "loop", !.key = key, !.approved = verdict]
    /\ overlapped' = (overlapped \/ MainActive)
    /\ UNCHANGED <<MINIMUM_APPROVALS, jira, moved, runvars, verdictvars, linkvars, owed>>

\* the second run reads its issue and chooses the branch
OtherRead ==
    /\ other.pc = "loop"
    /\ LET st == jira[other.key].status
           ty == jira[other.key].issuetype
           b == IF ty \in DOMAIN TRANSITION_MAP
                THEN Branch(other.approved, st, TRANSITION_MAP[ty])
                ELSE "none"
       IN  other' = IF b \in {"review", "approved", "progress"}
                    THEN [other EXCEPT !.pc = "transition", !.status = st,
                                       !.issuetype = ty, !.branch = b]
                    ELSE IdleOther
    /\ UNCHANGED <<MINIMUM_APPROVALS, jira, moved, runvars, verdictvars, linkvars, overlapped, owed>>

\* the second run's transition_issue succeeds
OtherTransition ==
    /\ other.pc = "transition"
    /\ jira' = [jira EXCEPT ![other.key].status =
                    WorkflowTarget(TRANSITION_MAP[other.issuetype], other.branch)]
    /\ moved' = [moved EXCEPT ![other.key] = other.approved]
    /\ other' = [other EXCEPT !.pc = "comment"]
    /\ UNCHANGED <<MINIMUM_APPROVALS, runvars, verdictvars, linkvars, overlapped, owed>>

\* the second run's comment is posted, or one of its two calls fails: it ends
OtherEnds ==
    /\ other.pc \in {"transition", "comment"}
    /\ other' = IdleOther
    /\ UNCHANGED <<MINIMUM_APPROVALS, jira, moved, runvars, verdictvars, linkvars, overlapped, owed>>

NextRace ==
    \/ Next
    \/ OtherInvoke
    \/ OtherRead
    \/ OtherTransition
    \/ OtherEnds

SpecRace == InitRace /\ [][NextRace]_vars

(* ------------------------------------------------------------------ *)
(* Invocations one after another, keeping track of comments that failed *)
(* ------------------------------------------------------------------ *)
\* types the issues have when missing comments are followed
OwedTypes == {"Task", "GitHub Issue"}

InitOwed ==
    /\ MINIMUM_APPROVALS = DefaultMinimumApprovals
    /\ jira \in [Keys -> [status : RaceStatuses, issuetype : OwedTypes]]
    /\ moved = [k \in Keys |-> "-"]
    /\ IdleRun
    /\ NoVerdict
    /\ NoLink
    /\ NoRace
    /\ NothingOwed

\* jira.add_comment succeeds: no comment is missing for the key any more
AddCommentOwed ==
    /\ pc = "comment"
    /\ calls' = Append(calls, CommentCall(i, jira_keys[i], CommentOf(branch), TRUE))
    /\ i' = i + 1
    /\ pc' = "loop"
    /\ owed' = [owed EXCEPT ![jira_keys[i]] = "-"]
    /\ UNCHANGED <<MINIMUM_APPROVALS, prs, jira, moved, jira_keys, approved,
                   issue_status, issue_type, branch, error, verdictvars, linkvars, racevars>>

\* jira.add_comment fails after the transition: the comment of this verdict
\* is missing for the key
CommentFailsOwed ==
    /\ pc = "comment"
    /\ calls' = Append(calls, CommentCall(i, jira_keys[i], CommentOf(branch), FALSE))
    /\ pc' = "failed"
    /\ error' = "JIRAError"
    /\ owed' = [owed EXCEPT ![jira_keys[i]] = approved]
    /\ UNCHANGED <<MINIMUM_APPROVALS, prs, jira, moved, jira_keys, approved, i,
                   issue_status, issue_type, branch, verdictvars, linkvars, racevars>>

NextOwed ==
    \/ NotConfigured
    \/ CronJob
    \/ RemainCollaborator
    \/ RemainFind
    \/ RemainCreate
    \/ RemainFails
    \/ ManualDispatch
    \/ EventKeyError
    \/ Event
    \/ RecentPrUrl
    \/ RecentPrUrlFails
    \/ GetIssue
    \/ GetIssueFails
    \/ LinkPrIssues
    \/ LinkFails
    \/ EditTitle
    \/ EditFails
    \/ CollaboratorCheck
    \/ LabelCheck
    \/ FindJiraIssue
    \/ Handler
    \/ NoHandler
    \/ Invoke
    \/ InvokeFails
    \/ ReadIssue
    \/ TransitionIssue
    \/ TransitionFails
    \/ AddCommentOwed
    \/ CommentFailsOwed
    \/ Return

SpecOwed == InitOwed /\ [][NextOwed]_vars

(* ------------------------------------------------------------------ *)
(* Reading the call log                                                 *)
(* ------------------------------------------------------------------ *)
\* positions of the issue reads of the current invocation
Reads == {p \in DOMAIN calls : calls[p].op = "issue"}
\* the issue read at p has a type with a row in the table
HasRow(p) == calls[p].issuetype \in DOMAIN TRANSITION_MAP
RowOf(p) == TRANSITION_MAP[calls[p].issuetype]
\* positions of the calls `op` made for list entry e
EntryCalls(e, op) == {q \in DOMAIN calls : calls[q].entry = e /\ calls[q].op = op}

\* the entry read at p issues transition `name` and then, once the transition
\* succeeded, the comment `text`; nothing else is done for it
EntryDoes(p, name, text) ==
    LET e == calls[p].entry
        k == calls[p].key
    IN  /\ IF p = Len(calls)
           THEN pc = "transition" /\ i = e /\ TRANSITION_MAP[issue_type][branch] = name
           ELSE calls[p + 1] \in {TransitionCall(e, k, name, TRUE), TransitionCall(e, k, name, FALSE)}
        /\ (p + 1 = Len(calls) /\ calls[p + 1].ok) => (pc = "comment" /\ CommentOf(branch) = text)
        /\ (p + 1 = Len(calls) /\ ~calls[p + 1].ok) => pc = "failed"
        /\ p + 2 <= Len(calls) =>
              /\ calls[p + 1].ok
              /\ calls[p + 2] \in {CommentCall(e, k, text, TRUE), CommentCall(e, k, text, FALSE)}
        /\ Cardinality(EntryCalls(e, "transition_issue")) <= 1
        /\ Cardinality(EntryCalls(e, "add_comment")) <= 1

\* the entry read at p makes no transition call and no comment call
EntryNoop(p) ==
    /\ EntryCalls(calls[p].entry, "transition_issue") = {}
    /\ EntryCalls(calls[p].entry, "add_comment") = {}
    /\ p = Len(calls) => pc \in {"loop", "done", "end"}

\* the entry read at p was transitioned and its comment was posted
EntryMovedAndCommented(p) ==
    /\ p + 2 <= Len(calls)
    /\ calls[p + 1].op = "transition_issue" /\ calls[p + 1].ok
    /\ calls[p + 2].op = "add_comment" /\ calls[p + 2].ok

(* ------------------------------------------------------------------ *)
(* Claims                                                               *)
(* ------------------------------------------------------------------ *)

\* C1 as stated: an issue read in approved_status is sent back with the `review`
\* transition and the "moved back to review" comment under every verdict that is
\* not Approved, ChangesRequested included.
C1_RegressionOnEveryNonApproved ==
    \A p \in Reads :
        (HasRow(p) /\ calls[p].status = RowOf(p).approved_status /\ approved # True)
            => EntryDoes(p, RowOf(p).review, MSG_REVIEW)

\* C1 amended: an issue read in approved_status is sent back with the `review`
\* transition and the "moved back to review" comment when the verdict is Pending;
\* this row is tested first.  Under ChangesRequested the same status takes the
\* rejection row (`progress` transition and its comment) instead.
C1_RegressionOnPending ==
    \A p \in Reads :
        (HasRow(p) /\ calls[p].status = RowOf(p).approved_status) =>
            /\ approved = None => EntryDoes(p, RowOf(p).review, MSG_REVIEW)
            /\ approved = False => EntryDoes(p, RowOf(p).progress, MSG_PROGRESS)

C1_Witness ==
    \E p \in Reads :
        /\ HasRow(p) /\ calls[p].status = RowOf(p).approved_status /\ approved = None
        /\ EntryMovedAndCommented(p)
        /\ calls[p + 1].transition = RowOf(p).review
        /\ calls[p + 2].body = MSG_REVIEW

\* C2: an issue read in review_status or approved_status is, under the verdict
\* ChangesRequested, transitioned with the row's `progress` transition and gets
\* the "moved back in progress" comment; reviewDecision null with reviews
\* [CHANGES_REQUESTED] is such a verdict.
C2_RejectionMovesToProgress ==
    /\ check_pr_approval_status(None, <<"CHANGES_REQUESTED">>, MINIMUM_APPROVALS) = False
    /\ \A p \in Reads :
          (/\ HasRow(p)
           /\ calls[p].status \in {RowOf(p).review_status, RowOf(p).approved_status}
           /\ approved = False)
              => EntryDoes(p, RowOf(p).progress, MSG_PROGRESS)

C2_Witness ==
    \E p \in Reads :
        /\ HasRow(p) /\ calls[p].status = "Reviewer Approved" /\ approved = False
        /\ EntryMovedAndCommented(p)
        /\ calls[p + 1].transition = RowOf(p).progress
        /\ calls[p + 2].body = MSG_PROGRESS

\* C3: an issue read in review_status is, under the verdict Approved, transitioned
\* with exactly the row's `approved` transition, which is "Approved" for a GitHub
\* Issue and "Reviewer Approved" for Task, Sub-task, Story and Bug, and gets the
\* "met approval criteria" comment; three approvals under an APPROVED decision
\* and a minimum of three are such a verdict.
C3_PromotionUsesApprovedTransition ==
    /\ check_pr_approval_status("APPROVED", <<"APPROVED", "APPROVED", "APPROVED">>, 3) = True
    /\ \A p \in Reads :
          (HasRow(p) /\ calls[p].status = RowOf(p).review_status /\ approved = True)
              => /\ calls[p].issuetype \in {"GitHub Issue", "Task", "Sub-task", "Story", "Bug"}
                 /\ EntryDoes(p,
                              IF calls[p].issuetype = "GitHub Issue"
                              THEN "Approved" ELSE "Reviewer Approved",
                              MSG_APPROVED)

C3_Witness ==
    \E p, q \in Reads :
        /\ calls[p].issuetype = "GitHub Issue" /\ calls[q].issuetype = "Task"
        /\ calls[p].status = "Review in progress" /\ calls[q].status = "Review in progress"
        /\ approved = True
        /\ EntryMovedAndCommented(p) /\ EntryMovedAndCommented(q)
        /\ calls[p + 1].transition = "Approved"
        /\ calls[q + 1].transition = "Reviewer Approved"
        /\ calls[q + 2].body = MSG_APPROVED

\* C4: an issue whose type has a row and whose status read is neither the row's
\* review_status nor its approved_status gets no transition call and no comment
\* call, whatever the verdict; every transition or comment call in the log was
\* made for an issue read in review_status or approved_status.
C4_OtherStatusIsNoop ==
    /\ \A p \in Reads :
          (/\ HasRow(p)
           /\ calls[p].status \notin {RowOf(p).review_status, RowOf(p).approved_status})
              => EntryNoop(p)
    /\ \A q \in DOMAIN calls :
          calls[q].op \in {"transition_issue", "add_comment"} =>
              \E p \in Reads :
                  /\ p < q /\ calls[p].entry = calls[q].entry /\ calls[p].key = calls[q].key
                  /\ HasRow(p)
                  /\ calls[p].status \in {RowOf(p).review_status, RowOf(p).approved_status}

C4_Witness ==
    \E p \in Reads :
        /\ HasRow(p) /\ calls[p].status = "To Do" /\ approved = False
        /\ pc = "done"
        /\ \E q \in Reads : q = p + 1 /\ EntryMovedAndCommented(q)

\* C5: when the status an issue is read in was set by a transition made under
\* the same verdict as the current one (a second application of the table with
\* unchanged verdict), no transition and no comment is made for it.
C5_SecondApplicationIsNoop ==
    \A p \in Reads :
        (HasRow(p) /\ calls[p].after = approved) => EntryNoop(p)

C5_Witness ==
    \E p \in Reads :
        /\ HasRow(p) /\ calls[p].after = approved /\ approved = None
        /\ calls[p].entry = 1
        /\ calls[p].issuetype = "GitHub Issue"
        /\ pc = "done"

\* C6 as stated: an issue type without a row fails that key alone; the loop goes
\* on, so the invocation never ends with the next key of the list unread.
C6_UnknownTypeContinues ==
    \A p \in Reads :
        (~HasRow(p) /\ calls[p].entry < Len(jira_keys) /\ pc \in {"failed", "done"})
            => \E q \in Reads : calls[q].entry = calls[p].entry + 1

\* C7: every list entry gets at most one transition call and at most one comment
\* call, the comment only after its transition succeeded; an entry the loop has
\* finished with has had exactly one of each when a row matched and none of
\* either otherwise.
C7_OneTransitionOneComment ==
    \A p \in Reads :
        LET e == calls[p].entry
            nT == Cardinality(EntryCalls(e, "transition_issue"))
            nC == Cardinality(EntryCalls(e, "add_comment"))
            matched == HasRow(p)
                       /\ Branch(approved, calls[p].status, RowOf(p)) \in {"review", "approved", "progress"}
        IN  /\ nT <= 1 /\ nC <= 1
            /\ nC = 1 => (p + 2 <= Len(calls)
                          /\ calls[p + 1].op = "transition_issue" /\ calls[p + 1].ok
                          /\ calls[p + 2].op = "add_comment")
            /\ ~matched => (nT = 0 /\ nC = 0)
            /\ (matched /\ e < i) => (nT = 1 /\ nC = 1)
            /\ (matched /\ e = i) => pc \in {"transition", "comment", "failed"}

C7_Witness ==
    /\ pc = "done"
    /\ Len(jira_keys) = 2
    /\ Cardinality(EntryCalls(1, "transition_issue")) = 1
    /\ Cardinality(EntryCalls(1, "add_comment")) = 1
    /\ Cardinality(EntryCalls(2, "transition_issue")) = 0
    /\ Cardinality(EntryCalls(2, "add_comment")) = 0
    /\ approved = False

\* C8: a transition call that is rejected or fails ends the invocation with the
\* error: it is the last call of the invocation, no comment is posted for the
\* entry, the transition is not issued again, and the issue's status is still
\* the one read before the call.
C8_FailedTransitionSurfaces ==
    \A q \in DOMAIN calls :
        (calls[q].op = "transition_issue" /\ ~calls[q].ok) =>
            /\ q = Len(calls)
            /\ pc = "failed" /\ error = "JIRAError"
            /\ EntryCalls(calls[q].entry, "add_comment") = {}
            /\ EntryCalls(calls[q].entry, "transition_issue") = {q}
            /\ calls[q - 1].op = "issue" /\ calls[q - 1].key = calls[q].key
            /\ jira[calls[q].key].status = calls[q - 1].status

C8_Witness ==
    /\ pc = "failed" /\ error = "JIRAError"
    /\ calls[Len(calls)].op = "transition_issue" /\ ~calls[Len(calls)].ok
    /\ calls[Len(calls)].entry = 2
    /\ jira[jira_keys[2]].status = issue_status

\* C9: whatever the configured minimum (>= 0), a review status with at least
\* one CHANGES_REQUESTED review and a decision other than APPROVED is judged
\* ChangesRequested (False).
C9_ChangesRequestedVerdict ==
    (/\ result # "unset"
     /\ \E p \in DOMAIN reviews : reviews[p] = "CHANGES_REQUESTED"
     /\ outcome # "APPROVED")
        => result = False

C9_Witness ==
    /\ result = False
    /\ outcome = None
    /\ MINIMUM_APPROVALS = 0
    /\ reviews = <<"APPROVED", "CHANGES_REQUESTED">>

\* C10: under the decision APPROVED the verdict is Approved (True) exactly when
\* the number of APPROVED reviews reaches the minimum, and Pending (None) in
\* every other case, whatever other review states are present.
C10_ApprovedDecisionVerdict ==
    (result # "unset" /\ outcome = "APPROVED") =>
        LET n == Cardinality({p \in DOMAIN reviews : reviews[p] = "APPROVED"})
        IN  /\ result = True <=> n >= MINIMUM_APPROVALS
            /\ result # True => result = None

C10_Witness ==
    /\ outcome = "APPROVED"
    /\ reviews = <<"APPROVED", "CHANGES_REQUESTED", "APPROVED">>
    /\ MINIMUM_APPROVALS = 3
    /\ result = None

\* C11 as stated: the verdict is Approved exactly when the decision is APPROVED
\* and the APPROVED reviews reach the minimum; when not Approved it is
\* ChangesRequested exactly when a CHANGES_REQUESTED review is present;
\* otherwise it is Pending.
C11_VerdictByReviewsAlone ==
    result # "unset" =>
        LET n == Cardinality({p \in DOMAIN reviews : reviews[p] = "APPROVED"})
            cr == \E p \in DOMAIN reviews : reviews[p] = "CHANGES_REQUESTED"
            isApproved == outcome = "APPROVED" /\ n >= MINIMUM_APPROVALS
        IN  /\ result = True <=> isApproved
            /\ ~isApproved => (result = False <=> cr)
            /\ (~isApproved /\ ~cr) => result = None

\* C11 amended: the verdict is Approved exactly when the decision is APPROVED
\* and the APPROVED reviews reach the minimum; it is ChangesRequested exactly
\* when the decision is not APPROVED and a CHANGES_REQUESTED review is present;
\* in every other case it is Pending.
C11_VerdictInvariant ==
    result # "unset" =>
        LET n == Cardinality({p \in DOMAIN reviews : reviews[p] = "APPROVED"})
            cr == \E p \in DOMAIN reviews : reviews[p] = "CHANGES_REQUESTED"
            isApproved == outcome = "APPROVED" /\ n >= MINIMUM_APPROVALS
            isRejected == outcome # "APPROVED" /\ cr
        IN  /\ result = True <=> isApproved
            /\ result = False <=> isRejected
            /\ result = None <=> (~isApproved /\ ~isRejected)

C11_Witness ==
    /\ outcome = "APPROVED"
    /\ reviews = <<"CHANGES_REQUESTED", "APPROVED">>
    /\ MINIMUM_APPROVALS = 2
    /\ result = None

\* C12 as stated: with no review at all the verdict is Pending, for every
\* decision and every minimum >= 0.
C12_NoReviewsIsPending ==
    (result # "unset" /\ reviews = <<>>) => result = None

\* C12 amended: with no review at all the verdict is Pending for every decision
\* and every minimum >= 0, except under the decision APPROVED with a minimum of
\* 0, where it is Approved.
C12_NoReviewsVerdict ==
    (result # "unset" /\ reviews = <<>>) =>
        result = (IF outcome = "APPROVED" /\ MINIMUM_APPROVALS = 0 THEN True ELSE None)

C12_Witness ==
    /\ reviews = <<>>
    /\ outcome = "APPROVED"
    /\ MINIMUM_APPROVALS = 0
    /\ result = True

(* ------------------------------------------------------------------ *)
(* Reading titles                                                       *)
(* ------------------------------------------------------------------ *)
\* positions of title t where `<project>-` stands
TokenStarts(t) == {p \in 1..Len(t) : TokenAt(t, p)}
\* positions of title t where `<project>-` stands with a digit behind it
KeyStarts(t) == {p \in TokenStarts(t) : p + 2 <= Len(t) /\ t[p + 2] \in Digits}
\* k is the text at position p of t: `<project>-` and every digit that follows
IsTokenAt(k, t, p) ==
    /\ TokenAt(t, p)
    /\ \E q \in (p + 1)..Len(t) :
          /\ k = SubSeq(t, p, q)
          /\ \A d \in (p + 2)..q : t[d] \in Digits
          /\ q < Len(t) => t[q + 1] \notin Digits
SetMax(S) == CHOOSE x \in S : \A y \in S : y <= x
SetMin(S) == CHOOSE x \in S : \A y \in S : x <= y
\* the closing issues that gave a key, and the j-th of them
Hits == {n \in DOMAIN closing_issues : TokenStarts(closing_issues[n]) # {}}
NthHit(j) == CHOOSE n \in Hits : Cardinality({m \in Hits : m <= n}) = j
\* k occurs somewhere in title t
OccursIn(k, t) == \E p \in 1..Len(t) : \E q \in p..Len(t) : SubSeq(t, p, q) = k

\* C15 (as stated): the keys returned keep the order of the closing-issue
\* titles they come from, and the list is empty whenever no title holds
\* `<project>-` followed by at least one digit.
C15_OrderedAndEmptyWithoutDigits ==
    lpc = "done" =>
        /\ \E f \in [DOMAIN link_keys -> DOMAIN closing_issues] :
              /\ \A a, b \in DOMAIN link_keys : a < b => f[a] < f[b]
              /\ \A a \in DOMAIN link_keys : OccursIn(link_keys[a], closing_issues[f[a]])
        /\ (\A n \in DOMAIN closing_issues : KeyStarts(closing_issues[n]) = {})
              => link_keys = <<>>

\* C17 (as stated): a title gives at most one key, and of several
\* `<project>-<digits>` tokens in a title the first one is the key.
C17_FirstTokenIsKey ==
    lpc = "done" =>
        /\ Len(link_keys) <= Len(closing_issues)
        /\ \A j \in DOMAIN link_keys :
              LET t == closing_issues[NthHit(j)]
              IN  Cardinality(KeyStarts(t)) >= 2
                     => IsTokenAt(link_keys[j], t, SetMin(KeyStarts(t)))

\* C17 (amended): a title gives at most one key; a title gives a key exactly
\* when `<project>-` occurs in it, and the key is the last occurrence of
\* `<project>-` together with every digit that directly follows it.
C17_LastTokenIsKey ==
    lpc = "done" =>
        /\ Len(link_keys) = Cardinality(Hits)
        /\ \A j \in DOMAIN link_keys :
              LET t == closing_issues[NthHit(j)]
              IN  IsTokenAt(link_keys[j], t, SetMax(TokenStarts(t)))

\* a title "PROJ-1PROJ-2" has been read and gave PROJ-2
C17_Witness ==
    /\ lpc = "done"
    /\ closing_issues = <<TitleK1 \o TitleK2>>
    /\ link_keys = <<TitleK2>>

\* number of places of title t where key k stands as a token
KeyCount(k, t) == Cardinality({p \in 1..Len(t) : IsTokenAt(k, t, p)})
\* the text appended for the keys, and what stands before it in title t
KeySuffix == <<" ", "(">> \o JoinKeys(link_keys) \o <<")">>
BodyOf(t) == SubSeq(t, 1, Len(t) - Len(KeySuffix))
\* title t holds a pair of parentheses with nothing but white space inside
HasEmptyParens(t) ==
    \E p, q \in 1..Len(t) :
        /\ p < q
        /\ t[p] = "(" /\ t[q] = ")"
        /\ \A r \in (p + 1)..(q - 1) : t[r] = " "
\* title t holds no `<project>-` and no empty parentheses
IsClean(t) == TokenStarts(t) = {} /\ ~HasEmptyParens(t)
NoRepeats(keys) == \A a, b \in DOMAIN keys : keys[a] = keys[b] => a = b

\* C16 (as stated): for every title and key list the rewritten title holds
\* each key at most once, and rewriting the rewritten title with the same
\* keys gives the same title.
C16_RoundTrip ==
    (lpc = "done" /\ edited_title # <<"unset">>) =>
        /\ \A j \in DOMAIN link_keys : KeyCount(link_keys[j], edited_title) <= 1
        /\ again => edited_title = pr_title

\* C16 (amended): when what the rewrite leaves in front of the appended key
\* list holds no `<project>-` and no empty parentheses, the rewritten title
\* holds each key of a list without repeats exactly once; and rewriting a
\* rewritten title with the same keys gives the same title exactly when what
\* stood in front of its key list held no `<project>-` and no empty parentheses.
C16_RoundTripOfCleanTitles ==
    (lpc = "done" /\ edited_title # <<"unset">>) =>
        /\ edited_title = BodyOf(edited_title) \o KeySuffix
        /\ (IsClean(BodyOf(edited_title)) /\ NoRepeats(link_keys))
              => \A j \in DOMAIN link_keys : KeyCount(link_keys[j], edited_title) = 1
        /\ again => (edited_title = pr_title <=> IsClean(BodyOf(pr_title)))

\* the title "1 (PROJ-2)" became "1 (PROJ-1 PROJ-2)" and the next event left it so
C16_Witness ==
    /\ lpc = "done"
    /\ again
    /\ closing_issues = <<TitleK1, TitleK2>>
    /\ pr_title = <<"1", " ", "(">> \o TitleK1 \o <<" ">> \o TitleK2 \o <<")">>
    /\ edited_title = pr_title

(* ------------------------------------------------------------------ *)
(* Reading the calls of an event                                        *)
(* ------------------------------------------------------------------ *)
\* the calls by which main gets the issue of the event, lines 119-140
FetchOps == {"get_recently_updated_pr_url", "requests.get"}
\* how many of them the event made
Lead == Cardinality({p \in DOMAIN calls : calls[p].op \in FetchOps})
\* positions of the calls named `name`
Ops(name) == {p \in DOMAIN calls : calls[p].op = name}
\* positions of the calls made on the issues of the key list
JiraCalls == Ops("issue") \cup Ops("transition_issue") \cup Ops("add_comment")
\* the event asked for the closing issues, first thing after it had its
\* issue, and was answered
ClosingFetched ==
    /\ Len(calls) > Lead
    /\ \A p \in 1..Lead : calls[p].op \in FetchOps /\ calls[p].ok
    /\ calls[Lead + 1] = MainCall("find_closing_issues", "", "", TRUE)
\* title t ends with the keys in parentheses
EndsWithKeys(t) ==
    /\ Len(t) >= Len(KeySuffix)
    /\ SubSeq(t, Len(t) - Len(KeySuffix) + 1, Len(t)) = KeySuffix
\* the calls on the issues come key after key of jira_keys: a read, then its
\* transition, then, the transition done, its comment
GroupsInOrder ==
    \A p \in JiraCalls :
        /\ calls[p].op = "issue" =>
              /\ calls[p].entry = Cardinality({q \in Reads : q <= p})
              /\ calls[p].entry \in DOMAIN jira_keys
              /\ calls[p].key = jira_keys[calls[p].entry]
        /\ calls[p].op = "transition_issue" =>
              /\ calls[p - 1].op = "issue"
              /\ calls[p - 1].entry = calls[p].entry /\ calls[p - 1].key = calls[p].key
        /\ calls[p].op = "add_comment" =>
              /\ calls[p - 1].op = "transition_issue" /\ calls[p - 1].ok
              /\ calls[p - 1].entry = calls[p].entry /\ calls[p - 1].key = calls[p].key
\* what follows each read is what the verdict of this invocation asks for
SingleVerdict ==
    \A p \in Reads :
        (HasRow(p) /\ p < Len(calls)) =>
            LET b == Branch(approved, calls[p].status, RowOf(p))
            IN  IF b \in {"review", "approved", "progress"}
                THEN /\ calls[p + 1].op = "transition_issue"
                     /\ calls[p + 1].transition = RowOf(p)[b]
                ELSE calls[p + 1].op # "transition_issue"

\* C13: in an event with closing-issue linking that found a key, the next
\* call is the edit of the title to end with the keys; the edit done, the
\* state machine is run on exactly those keys (an edit that is refused ends
\* the event with the error), and no collaborator check, no sync-label check,
\* no lookup of the pull request's own issue and no handler is executed.
C13_LinkedShortCircuits ==
    link_keys # <<>> =>
        /\ ClosingFetched
        /\ jira_keys = KeyTexts(link_keys)
        /\ pc \in {"edit", "linked", "loop", "transition", "comment", "done", "failed"}
        /\ pc = "edit" <=> Len(calls) = Lead + 1
        /\ Len(calls) >= Lead + 2 =>
              /\ calls[Lead + 2].op = "edit"
              /\ calls[Lead + 2].body = Text(CleanTitle(pr_title) \o KeySuffix)
              /\ calls[Lead + 2].ok => (Text(edited_title) = calls[Lead + 2].body /\ EndsWithKeys(edited_title))
              /\ ~calls[Lead + 2].ok => (pc = "failed" /\ Len(calls) = Lead + 2)
        /\ Len(calls) >= Lead + 3 => calls[Lead + 3].op = "get_pr_review_status"
        /\ \A p \in Reads : calls[p].key = jira_keys[calls[p].entry]
        /\ pc = "done" => \A e \in DOMAIN jira_keys : EntryCalls(e, "issue") # {}
        /\ Ops("has_in_collaborators") \cup Ops("sync_label") = {}
        /\ Ops("find_jira_issue") \cup Ops("handler") = {}

\* the title "1 (PROJ-2)" was edited to "1 (PROJ-1)", PROJ-1 was moved and
\* commented, and the event is over
C13_Witness ==
    /\ pc = "done"
    /\ link_keys = <<TitleK1>>
    /\ Lead = 1
    /\ Len(calls) = Lead + 6
    /\ calls[Lead + 2].body = "1 (PROJ-1)"
    /\ calls[Lead + 5].op = "transition_issue" /\ calls[Lead + 5].key = "PROJ-1" /\ calls[Lead + 5].ok
    /\ calls[Lead + 6].op = "add_comment" /\ calls[Lead + 6].ok

\* C14 (as stated): when no linked issue is found, the empty list is
\* returned and the event calls neither the title edit nor a Jira transition.
C14_NoEditNoTransition ==
    (ClosingFetched /\ ResolveKeys(closing_issues) = <<>>) =>
        /\ link_keys = <<>>
        /\ Ops("edit") = {}
        /\ Ops("transition_issue") = {}

\* C14 (amended): when no linked issue is found, the empty list is returned
\* and the title is not edited; a Jira transition is issued only on the
\* normal path, for the issue find_jira_issue returned for the pull request.
C14_NoEditOwnIssueOnly ==
    (ClosingFetched /\ ResolveKeys(closing_issues) = <<>>) =>
        /\ link_keys = <<>>
        /\ Ops("edit") = {}
        /\ \A p \in Ops("transition_issue") :
              \E q \in Ops("find_jira_issue") :
                  /\ q < p
                  /\ calls[q].key = calls[p].key
                  /\ jira_keys = <<calls[p].key>>

\* no closing issue, and the pull request's own issue was moved and commented
C14_Witness ==
    /\ pc = "end"
    /\ ClosingFetched
    /\ link_keys = <<>>
    /\ \E p \in Ops("transition_issue") : calls[p].ok /\ p + 1 \in Ops("add_comment")

\* C19 (as stated): the calls of a pull-request event, once main has the
\* issue of the event, are the closing-issue
\* fetch, the title edit if keys were found, exactly one review-status
\* fetch, then per key a read followed by its transition and comment; no
\* Jira call precedes the edit and one verdict is applied to every key.
C19_CallOrder ==
    ClosingFetched =>
        /\ Ops("edit") \subseteq {Lead + 2}
        /\ Ops("edit") # {} => link_keys # <<>>
        /\ (link_keys # <<>> /\ pc # "edit") => Ops("edit") # {}
        /\ Cardinality(Ops("get_pr_review_status")) <= 1
        /\ pc \in {"done", "end"} => Cardinality(Ops("get_pr_review_status")) = 1
        /\ \A p \in Ops("get_pr_review_status") : \A e \in Ops("edit") : e < p
        /\ \A p \in JiraCalls : \E r \in Ops("get_pr_review_status") : r < p
        /\ \A p \in JiraCalls \cup Ops("find_jira_issue") : \A e \in Ops("edit") : e < p
        /\ GroupsInOrder
        /\ SingleVerdict

\* C19 (amended): when keys were found the calls, after those by which
\* main gets the issue of the event, are the closing-issue
\* fetch, the title edit, one review-status fetch, then per key a read
\* followed by its transition and comment, with one verdict for every key;
\* when no key was found there is no edit and at most one review-status
\* fetch, made right after find_jira_issue returned the pull request's issue.
C19_CallOrderWhenLinked ==
    ClosingFetched =>
        /\ link_keys # <<>> =>
              /\ Ops("edit") \subseteq {Lead + 2}
              /\ pc # "edit" => Ops("edit") = {Lead + 2}
              /\ Ops("get_pr_review_status") \subseteq {Lead + 3}
              /\ Ops("get_pr_review_status") # {} => calls[Lead + 2].ok
              /\ pc \in {"loop", "transition", "comment", "done"}
                    => Ops("get_pr_review_status") = {Lead + 3}
              /\ JiraCalls = {p \in DOMAIN calls : p >= Lead + 4}
        /\ link_keys = <<>> =>
              /\ Ops("edit") = {}
              /\ Cardinality(Ops("get_pr_review_status")) <= 1
              /\ \A r \in Ops("get_pr_review_status") :
                    calls[r - 1].op = "find_jira_issue" /\ jira_keys = <<calls[r - 1].key>>
        /\ \A p \in JiraCalls : \E r \in Ops("get_pr_review_status") : r < p /\ calls[r].ok
        /\ GroupsInOrder
        /\ SingleVerdict

\* two linked issues: fetch, edit, review status, then read, transition and
\* comment for PROJ-1 and the same for PROJ-2
C19_Witness ==
    /\ pc = "done"
    /\ jira_keys = <<"PROJ-1", "PROJ-2">>
    /\ Lead = 2
    /\ Len(calls) = Lead + 9
    /\ calls[Lead + 4].op = "issue" /\ calls[Lead + 4].key = "PROJ-1"
    /\ calls[Lead + 6].op = "add_comment" /\ calls[Lead + 6].ok
    /\ calls[Lead + 7].op = "issue" /\ calls[Lead + 7].key = "PROJ-2"
    /\ calls[Lead + 9].op = "add_comment" /\ calls[Lead + 9].ok

\* C20: an issue whose key stands more than once in the key list gets at
\* most one transition call and at most one comment call in the invocation.
C20_RepeatedKeyMovedOnce ==
    \A k \in Keys :
        (\E a, b \in DOMAIN jira_keys : a < b /\ jira_keys[a] = k /\ jira_keys[b] = k) =>
            /\ Cardinality({p \in Ops("transition_issue") : calls[p].key = k}) <= 1
            /\ Cardinality({p \in Ops("add_comment") : calls[p].key = k}) <= 1

\* PROJ-1 stands twice in the list: the first entry moved and commented it,
\* the second read it in its new status and did nothing
C20_Witness ==
    /\ pc = "done"
    /\ jira_keys = <<"PROJ-1", "PROJ-1">>
    /\ Len(calls) = Lead + 7
    /\ calls[Lead + 5].op = "transition_issue" /\ calls[Lead + 5].ok
    /\ calls[Lead + 6].op = "add_comment" /\ calls[Lead + 6].ok
    /\ calls[Lead + 7].op = "issue" /\ calls[Lead + 7].entry = 2 /\ calls[Lead + 7].status # calls[Lead + 4].status

\* C18 (as stated): in every interleaving of runs for the same pull request,
\* the status a run has read is still the issue's status when the run is at
\* its transition call.
C18_NeverStale ==
    pc = "transition" => jira[jira_keys[i]].status = issue_status

\* C18 (amended): when no other run was under way during the event, the
\* status the run has read is still the issue's status when the run is at
\* its transition call.
C18_NotStaleWithoutOverlap ==
    (pc = "transition" /\ ~overlapped) => jira[jira_keys[i]].status = issue_status

\* an earlier run moved the issue; the current event, met by no other run,
\* has read the issue and stands at its transition call
C18_Witness ==
    /\ pc = "transition"
    /\ ~overlapped
    /\ other.pc = "idle"
    /\ moved[jira_keys[i]] # "-"
    /\ calls[Len(calls)].after # "-"
    /\ jira[jira_keys[i]].status = issue_status

\* C21 (as stated): a comment that failed after its transition is posted by a
\* later invocation with the same verdict: no invocation ends with a key it
\* has read still missing the comment of the verdict it ran with.
C21_MissingCommentPosted ==
    pc \in {"done", "end"} =>
        \A p \in Reads : owed[calls[p].key] # approved

\* C21 (amended): the comment is posted only by the add_comment call right
\* after the transition. When that call fails the invocation ends there,
\* with the issue in a status where the same verdict meets no row; a later
\* invocation with the same verdict reads the issue, makes no transition and
\* no comment for it, and the comment stays missing.
C21_MissingCommentStaysMissing ==
    /\ \A p \in Ops("add_comment") :
          /\ calls[p - 1].op = "transition_issue" /\ calls[p - 1].ok
          /\ calls[p - 1].key = calls[p].key
          /\ ~calls[p].ok =>
                /\ p = Len(calls) /\ pc = "failed"
                /\ owed[calls[p].key] = approved
                /\ Branch(approved, jira[calls[p].key].status, TRANSITION_MAP[issue_type])
                      \notin {"review", "approved", "progress"}
    /\ \A p \in Reads :
          (owed[calls[p].key] = approved /\ calls[p].after = approved) =>
              /\ EntryCalls(calls[p].entry, "transition_issue") = {}
              /\ EntryCalls(calls[p].entry, "add_comment") = {}

\* the comment of the approval of PROJ-1 failed in an earlier invocation; the
\* pull request is approved still, PROJ-1 was read again and the invocation
\* ended with no call but the read
C21_Witness ==
    /\ pc = "done"
    /\ approved = True
    /\ jira_keys = <<"PROJ-1">>
    /\ owed["PROJ-1"] = True
    /\ calls[Len(calls)].op = "issue"
    /\ calls[Len(calls)].after = True
    /\ Ops("add_comment") = {}

====
